---- MODULE Spec2Model ----
(***************************************************************************)
(* Model of the Session Store (Ephemeral) node: three in-memory partitions *)
(* (execution, workflow, global) holding JSON-like trees addressed by      *)
(* dot-separated key paths, with a TTL sweep at the start of every call    *)
(* of execute().  Source: src/src/SessionStore.node.ts.                    *)
(*                                                                         *)
(* execute() is declared async but contains no await: one call runs to    *)
(* completion on the single JavaScript thread, so one call is one action.  *)
(***************************************************************************)
EXTENDS Integers, Sequences, FiniteSets, TLC

\* ------------------------------------------------------------------------
\* Program constants (SessionStore.node.ts:401-403)
\* ------------------------------------------------------------------------
TTL_MS == 3600000
MAX_VALUE_SIZE_BYTES == 10485760
MAX_STORE_SIZE_BYTES == 104857600

\* ------------------------------------------------------------------------
\* Bounds of the model
\* ------------------------------------------------------------------------
\* the clock advances in steps of TickMs, at most MaxTicks times
MaxTicks == 2
\* number of calls of execute() in one behaviour
MaxCalls == 2
\* counters stay within -MaxCounter .. MaxCounter
MaxCounter == 3
\* arrays hold at most MaxLen elements
MaxLen == 2

\* One TTL: an entry is seen at the ages 0, TTL (it survives) and 2 * TTL (evicted).
TickMs == TTL_MS

\* ------------------------------------------------------------------------
\* JavaScript values.  A key path is a string; it is modelled as the
\* sequence of its characters, where the reserved word __proto__ counts as
\* one character.  A property key (one segment of a path) is such a
\* sequence too.
\* ------------------------------------------------------------------------
DOT == "."
PROTO == <<"__proto__">>

Undefined == [t |-> "undefined"]
Null == [t |-> "null"]
Num(n) == [t |-> "number", n |-> n]
Bool(b) == [t |-> "boolean", b |-> b]
\* a string: a label for its content and its length in characters
Str(s, len) == [t |-> "string", s |-> s, len |-> len]
\* the empty property map
NoProps == [k \in {} |-> Undefined]
\* a plain object {...}: its own properties, key -> value
Obj(props) == [t |-> "object", o |-> props]
\* an array: its elements (a hole is Undefined) and its own named properties
Arr(elems) == [t |-> "array", a |-> elems, o |-> NoProps]
\* Object.prototype, shared by every plain object of the process; its own
\* properties added by the program are the variable objectProto
ObjectPrototype == [t |-> "prototype", of |-> "Object"]
\* Array.prototype (its own properties are built-in methods, none of which
\* is a key of the model)
ArrayPrototype == [t |-> "prototype", of |-> "Array"]

EmptyObject == Obj(NoProps)

\* typeof v === 'object' && v !== null
IsObject(v) == v.t \in {"object", "array", "prototype"}
\* Array.isArray(v)
IsArray(v) == v.t = "array"
\* the truthiness used by `!current[key]` and `if (key)`
Truthy(v) ==
  CASE v.t \in {"undefined", "null"} -> FALSE
    [] v.t = "number" -> v.n # 0
    [] v.t = "boolean" -> v.b
    [] v.t = "string" -> v.len # 0
    [] OTHER -> TRUE

\* the array index a key denotes, -1 when it is no index
ArrayIndex(key) ==
  CASE key = <<"0">> -> 0
    [] key = <<"1">> -> 1
    [] OTHER -> -1

\* path.split('.')
RECURSIVE split(_)
split(path) ==
  IF \A i \in 1..Len(path) : path[i] # DOT
  THEN <<path>>
  ELSE LET i == CHOOSE i \in 1..Len(path) :
                  path[i] = DOT /\ \A j \in 1..(i - 1) : path[j] # DOT
       IN <<SubSeq(path, 1, i - 1)>> \o split(SubSeq(path, i + 1, Len(path)))

\* keys.pop() of the segment list: the last segment
LastKey(path) == LET keys == split(path) IN keys[Len(keys)]

\* ------------------------------------------------------------------------
\* Property access:  cur[key], cur[key] = value, delete cur[key]
\* op is the current content of Object.prototype (own, program-set).
\* ------------------------------------------------------------------------
\* does cur have key as an own property
HasOwn(cur, key, op) ==
  CASE cur.t = "object" -> key \in DOMAIN cur.o
    [] cur.t = "array" ->
         \/ (ArrayIndex(key) >= 0 /\ ArrayIndex(key) < Len(cur.a)
             /\ cur.a[ArrayIndex(key) + 1] # Undefined)
         \/ key \in DOMAIN cur.o
    [] cur = ObjectPrototype -> key \in DOMAIN op
    [] OTHER -> FALSE

\* the own property cur[key] (HasOwn holds)
OwnProp(cur, key, op) ==
  CASE cur.t = "object" -> cur.o[key]
    [] cur.t = "array" ->
         IF ArrayIndex(key) >= 0 /\ ArrayIndex(key) < Len(cur.a)
         THEN cur.a[ArrayIndex(key) + 1] ELSE cur.o[key]
    [] OTHER -> op[key]

\* cur[key] for an object-like cur: own property, else the prototype chain
GetProp(cur, key, op) ==
  IF HasOwn(cur, key, op) THEN OwnProp(cur, key, op)
  ELSE IF key = PROTO
       THEN CASE cur.t = "object" -> ObjectPrototype
              [] cur.t = "array" -> ArrayPrototype
              [] cur = ArrayPrototype -> ObjectPrototype
              [] OTHER -> Null
       ELSE IF cur # ObjectPrototype /\ key \in DOMAIN op THEN op[key]
       ELSE Undefined

\* f with key bound to v
WithKey(f, key, v) == [k \in (DOMAIN f) \cup {key} |-> IF k = key THEN v ELSE f[k]]
\* f without key
WithoutKey(f, key) == [k \in (DOMAIN f) \ {key} |-> f[k]]

\* cur[key] = value.  Result: the node and Object.prototype afterwards.
\* The __proto__ setter ignores a value that is neither an object nor null.
AssignProp(cur, key, value, op) ==
  CASE cur = ObjectPrototype ->
         [cur |-> cur, proto |-> IF key = PROTO THEN op ELSE WithKey(op, key, value)]
    [] cur = ArrayPrototype -> [cur |-> cur, proto |-> op]
    [] key = PROTO -> [cur |-> cur, proto |-> op]
    [] cur.t = "array" /\ ArrayIndex(key) >= 0 /\ ArrayIndex(key) < Len(cur.a) ->
         [cur |-> [cur EXCEPT !.a[ArrayIndex(key) + 1] = value], proto |-> op]
    [] cur.t = "array" /\ ArrayIndex(key) >= Len(cur.a) ->
         [cur |-> [cur EXCEPT !.a =
                     [i \in 1..(ArrayIndex(key) + 1) |->
                        IF i <= Len(cur.a) THEN cur.a[i]
                        ELSE IF i = ArrayIndex(key) + 1 THEN value ELSE Undefined]],
          proto |-> op]
    [] OTHER ->
         [cur |-> [cur EXCEPT !.o = WithKey(cur.o, key, value)], proto |-> op]

\* delete cur[key]: removes an own property only
DeleteProp(cur, key, op) ==
  CASE cur = ObjectPrototype -> [cur |-> cur, proto |-> WithoutKey(op, key)]
    [] cur = ArrayPrototype -> [cur |-> cur, proto |-> op]
    [] cur.t = "array" /\ ArrayIndex(key) >= 0 /\ ArrayIndex(key) < Len(cur.a) ->
         [cur |-> [cur EXCEPT !.a[ArrayIndex(key) + 1] = Undefined], proto |-> op]
    [] OTHER -> [cur |-> [cur EXCEPT !.o = WithoutKey(cur.o, key)], proto |-> op]

\* key is found on the prototype chain of cur, in Object.prototype
Inherits(cur, key, op) ==
  ~HasOwn(cur, key, op) /\ key # PROTO /\ cur # ObjectPrototype /\ key \in DOMAIN op

\* The node cur after the object it holds (or inherits) under key became
\* sub.cur: objects are shared by reference, so a change made below
\* cur[key] is seen through cur, or through Object.prototype when cur[key]
\* is inherited.
WriteBack(cur, key, sub, op) ==
  IF HasOwn(cur, key, op) THEN AssignProp(cur, key, sub.cur, sub.proto)
  ELSE IF key = PROTO THEN [cur |-> cur, proto |-> sub.proto]
  ELSE IF Inherits(cur, key, op)
       THEN [cur |-> cur, proto |-> WithKey(sub.proto, key, sub.cur)]
  ELSE [cur |-> cur, proto |-> sub.proto]

\* ------------------------------------------------------------------------
\* setDeep / getDeep / deleteDeep (SessionStore.node.ts:428-466)
\* ------------------------------------------------------------------------
\* the loop and the final assignment of setDeep, from node `current`
RECURSIVE setWalk(_, _, _, _)
setWalk(current, keys, value, op) ==
  LET key == Head(keys) IN
  IF Len(keys) = 1 THEN AssignProp(current, key, value, op)
  ELSE LET child == GetProp(current, key, op) IN
       IF ~Truthy(child) \/ ~IsObject(child)
       THEN \* current[key] = {}; current = current[key]
            LET made == AssignProp(current, key, EmptyObject, op)
                sub == setWalk(GetProp(made.cur, key, made.proto), Tail(keys),
                               value, made.proto)
            IN WriteBack(made.cur, key, sub, made.proto)
       ELSE WriteBack(current, key, setWalk(child, Tail(keys), value, op), op)

\* setDeep(obj, path, value): [cur |-> obj afterwards, proto |-> Object.prototype afterwards]
setDeep(obj, path, value, op) == setWalk(obj, split(path), value, op)

\* the walk of getDeep stopping at an array as it does at a scalar
RECURSIVE getWalk_StopsAtArray(_, _, _, _)
getWalk_StopsAtArray(current, keys, defaultValue, op) ==
  IF keys = <<>>
  THEN IF current = Undefined THEN defaultValue ELSE current
  ELSE IF current = Undefined \/ current = Null \/ ~IsObject(current) \/ IsArray(current)
       THEN defaultValue
       ELSE getWalk_StopsAtArray(GetProp(current, Head(keys), op), Tail(keys),
                                 defaultValue, op)

RECURSIVE getWalk(_, _, _, _)
getWalk(current, keys, defaultValue, op) ==
  IF keys = <<>>
  THEN IF current = Undefined THEN defaultValue ELSE current
  ELSE IF current = Undefined \/ current = Null \/ ~IsObject(current)
       THEN defaultValue
       ELSE getWalk(GetProp(current, Head(keys), op), Tail(keys), defaultValue, op)

\* getDeep(obj, path, defaultValue)
getDeep(obj, path, defaultValue, op) == getWalk(obj, split(path), defaultValue, op)

RECURSIVE deleteWalk(_, _, _)
deleteWalk(current, keys, op) ==
  IF current = Undefined \/ current = Null \/ ~IsObject(current)
  THEN [cur |-> current, proto |-> op]
  ELSE IF Len(keys) = 1 THEN DeleteProp(current, Head(keys), op)
  ELSE WriteBack(current, Head(keys),
                 deleteWalk(GetProp(current, Head(keys), op), Tail(keys), op), op)

\* deleteDeep(obj, path)
deleteDeep(obj, path, op) == deleteWalk(obj, split(path), op)

\* ------------------------------------------------------------------------
\* validateSize (SessionStore.node.ts:421-426)
\* ------------------------------------------------------------------------
\* number of decimal digits of n >= 0
RECURSIVE Digits(_)
Digits(n) == IF n < 10 THEN 1 ELSE 1 + Digits(n \div 10)

\* number of characters of a key
KeyLen(key) == IF key = <<>> THEN 0 ELSE IF key = PROTO THEN 9 ELSE Len(key)

\* JSON.stringify(v).length; -1 when JSON.stringify(v) is undefined
RECURSIVE JsonLen(_)
RECURSIVE JsonPropsLen(_, _)
RECURSIVE JsonElemsLen(_)
JsonLen(v) ==
  CASE v.t = "undefined" -> -1
    [] v.t = "null" -> 4
    [] v.t = "boolean" -> IF v.b THEN 4 ELSE 5
    [] v.t = "number" -> IF v.n < 0 THEN 1 + Digits(-v.n) ELSE Digits(v.n)
    [] v.t = "string" -> v.len + 2
    [] v.t = "array" -> 2 + JsonElemsLen(v.a) + (IF Len(v.a) > 1 THEN Len(v.a) - 1 ELSE 0)
    [] OTHER ->
         LET shown == {k \in DOMAIN v.o : v.o[k] # Undefined}
         IN 2 + JsonPropsLen(v.o, shown)
              + (IF Cardinality(shown) > 1 THEN Cardinality(shown) - 1 ELSE 0)
JsonPropsLen(props, ks) ==
  IF ks = {} THEN 0
  ELSE LET k == CHOOSE k \in ks : TRUE
       IN KeyLen(k) + 3 + JsonLen(props[k]) + JsonPropsLen(props, ks \ {k})
JsonElemsLen(elems) ==
  IF elems = <<>> THEN 0
  ELSE (IF Head(elems) = Undefined THEN 4 ELSE JsonLen(Head(elems)))
         + JsonElemsLen(Tail(elems))

\* validateSize without the comparison against the ceiling
validateSize_NoCeiling(value, key) ==
  LET size == JsonLen(value)
  IN IF size = -1 THEN "TypeError" ELSE "ok"

\* validateSize(value, key): "ok", or the error it throws
validateSize(value, key) ==
  LET size == JsonLen(value)
  IN IF size = -1 THEN "TypeError"
     ELSE IF size > MAX_VALUE_SIZE_BYTES THEN "exceeds size limit"
     ELSE "ok"

\* ------------------------------------------------------------------------
\* Typed parameter values
\* ------------------------------------------------------------------------
\* JSON.parse(text) for the texts the model supplies; a text that is not
\* JSON makes JSON.parse throw a SyntaxError
JSONparse(text) ==
  CASE text.s = "[]" -> Arr(<<>>)
    [] text.s = "[1]" -> Arr(<<Num(1)>>)
    [] text.s = "{}" -> EmptyObject
    [] text.s = "{\"b\":2}" -> Obj(<<"b">> :> Num(2))
    [] text.s = "null" -> Null
    [] OTHER -> [t |-> "SyntaxError"]

\* the finalValue of one assignment of a set (lines 523-531): the field
\* selected by item.type; array and object fields arrive as JSON text
FinalValue(item) ==
  CASE item.type \in {"string", "number", "boolean"} -> item.value
    [] item.type \in {"array", "object"} ->
         IF item.value.t = "string" THEN JSONparse(item.value) ELSE item.value
    [] OTHER -> Undefined

\* the value of a push/unshift (lines 604-608): undecodable text stays a string
PushValue(valueType, value) ==
  IF valueType \in {"array", "object"} /\ value.t = "string"
  THEN IF JSONparse(value).t = "SyntaxError" THEN value ELSE JSONparse(value)
  ELSE value

\* ------------------------------------------------------------------------
\* One item of the batch (SessionStore.node.ts:506-652).
\* st = [ref      the tree sessionRef points to,
\*       detached TRUE once a clear of the entire scope has pointed
\*                targetStoreEntry.data to a new {} (sessionRef keeps the old),
\*       proto    Object.prototype]
\* Result: [st, result, error]; error = "" when nothing was thrown.
\* ------------------------------------------------------------------------
Ok(st, result) == [st |-> st, result |-> result, error |-> ""]
Thrown(st, message) == [st |-> st, result |-> [error |-> message], error |-> message]

\* st with the tree and Object.prototype a walk r left
StWith(st, r) == [st EXCEPT !.ref = r.cur, !.proto = r.proto]

\* st after setDeep(sessionRef, key, value)
StSet(st, key, value) == StWith(st, setDeep(st.ref, key, value, st.proto))

\* st after deleteDeep(sessionRef, key)
StDelete(st, key) == StWith(st, deleteDeep(st.ref, key, st.proto))

\* shouldSet with the if-present mode writing whether or not the key exists
ShouldSet_Upserts(setMode, exists) ==
  \/ setMode = "auto"
  \/ setMode = "nx" /\ ~exists
  \/ setMode = "xx"

\* shouldSet with the if-absent mode writing whether or not the key exists
ShouldSet_Overwrites(setMode, exists) ==
  \/ setMode = "auto"
  \/ setMode = "nx"
  \/ setMode = "xx" /\ exists

\* shouldSet (lines 537-540)
ShouldSet(setMode, exists) ==
  \/ setMode = "auto"
  \/ setMode = "nx" /\ ~exists
  \/ setMode = "xx" /\ exists

\* the loop with every existence check read in the tree as it was before
\* the first assignment
RECURSIVE SnapshotLoop(_, _, _, _)
SnapshotLoop(acc, values, setMode, snapshot) ==
  IF values = <<>> \/ acc.error # "" THEN acc
  ELSE IF FinalValue(Head(values)).t = "SyntaxError"
  THEN [acc EXCEPT !.error = "SyntaxError"]
  ELSE IF validateSize(FinalValue(Head(values)), Head(values).key) # "ok"
  THEN [acc EXCEPT !.error = validateSize(FinalValue(Head(values)), Head(values).key)]
  ELSE IF ShouldSet(setMode, getDeep(snapshot.ref, Head(values).key, Undefined,
                                     snapshot.proto) # Undefined)
  THEN SnapshotLoop(
         [st |-> StSet(acc.st, Head(values).key, FinalValue(Head(values))),
          updates |-> AssignProp(acc.updates, Head(values).key,
                                 FinalValue(Head(values)), acc.st.proto).cur,
          error |-> ""],
         Tail(values), setMode, snapshot)
  ELSE SnapshotLoop(acc, Tail(values), setMode, snapshot)
SetAssignments_Snapshot(acc, values, setMode) ==
  SnapshotLoop(acc, values, setMode, acc.st)

\* the loop over assignments.values of one set item (lines 518-546);
\* acc = [st, updates (setResults), error]
RECURSIVE SetAssignments(_, _, _)
SetAssignments(acc, values, setMode) ==
  IF values = <<>> \/ acc.error # "" THEN acc
  ELSE LET item == Head(values)
           key == item.key
           finalValue == FinalValue(item)
           size == validateSize(finalValue, key)
           exists == getDeep(acc.st.ref, key, Undefined, acc.st.proto) # Undefined
       IN IF finalValue.t = "SyntaxError"
          THEN [acc EXCEPT !.error = "SyntaxError"]
          ELSE IF size # "ok"
          THEN [acc EXCEPT !.error = size]
          ELSE IF ShouldSet(setMode, exists)
          THEN SetAssignments(
                 [st |-> StSet(acc.st, key, finalValue),
                  updates |-> AssignProp(acc.updates, key, finalValue, acc.st.proto).cur,
                  error |-> ""],
                 Tail(values), setMode)
          ELSE SetAssignments(acc, Tail(values), setMode)

\* the result of a set item (line 548), or what the loop threw
SetResult(r) ==
  IF r.error # "" THEN Thrown(r.st, r.error)
  ELSE Ok(r.st, [success |-> TRUE, op |-> "set", updates |-> r.updates])

ItemSet(st, p) ==
  SetResult(SetAssignments([st |-> st, updates |-> EmptyObject, error |-> ""],
                           p.assignments, p.setMode))

\* lines 554-562; the record returned is json itself
ItemGet(st, p) ==
  LET value == getDeep(st.ref, p.key, Undefined, st.proto)
  IN Ok(st, [op |-> "get",
             json |-> IF IsObject(value) THEN value
                      ELSE Obj(LastKey(p.key) :> value)])

\* lines 566-573
ItemExists(st, p) ==
  Ok(st, [key |-> p.key,
          exists |-> getDeep(st.ref, p.key, Undefined, st.proto) # Undefined])

\* lines 578-580; the record returned is sessionRef itself
ItemGetAll(st, p) == Ok(st, [op |-> "getAll", json |-> st.ref])

\* increment / decrement counting a value that is not a number as 1
ItemIncDec_Coerces(st, operation, p) ==
  LET read == getDeep(st.ref, p.key, Num(0), st.proto)
      currentVal == IF read.t = "number" THEN read.n ELSE 1
      newVal == IF operation = "increment" THEN currentVal + p.amount
                ELSE currentVal - p.amount
  IN Ok(StSet(st, p.key, Num(newVal)),
        [key |-> p.key, oldValue |-> currentVal, newValue |-> newVal, op |-> operation])

\* increment / decrement computing from the value the item before it read,
\* not from the value the scope holds: an update is lost
ItemIncDec_Lost(st, operation, p) ==
  LET read == getDeep(st.ref, p.key, Num(0), st.proto)
      currentVal == IF read.t = "number" THEN read.n ELSE 0
      staleVal == IF currentVal > 0 THEN currentVal - 1 ELSE currentVal
      newVal == IF operation = "increment" THEN staleVal + p.amount
                ELSE staleVal - p.amount
  IN Ok(StSet(st, p.key, Num(newVal)),
        [key |-> p.key, oldValue |-> currentVal, newValue |-> newVal, op |-> operation])

\* lines 585-596
ItemIncDec(st, operation, p) ==
  LET read == getDeep(st.ref, p.key, Num(0), st.proto)
      currentVal == IF read.t = "number" THEN read.n ELSE 0
      newVal == IF operation = "increment" THEN currentVal + p.amount
                ELSE currentVal - p.amount
  IN Ok(StSet(st, p.key, Num(newVal)),
        [key |-> p.key, oldValue |-> currentVal, newValue |-> newVal, op |-> operation])

\* push / unshift starting a new array where the key holds a non-sequence
ItemPushUnshift_Replaces(st, operation, p) ==
  LET value == PushValue(p.valueType, p.value)
      read == getDeep(st.ref, p.key, Undefined, st.proto)
      arr == IF IsArray(read) THEN read ELSE Arr(<<>>)
      size == validateSize(value, p.key)
  IN IF size # "ok" THEN Thrown(st, size)
     ELSE LET grown == [arr EXCEPT !.a = IF operation = "push" THEN Append(arr.a, value)
                                         ELSE <<value>> \o arr.a]
          IN Ok(StSet(st, p.key, grown),
                [success |-> TRUE, key |-> p.key, length |-> Len(grown.a), op |-> operation])

\* lines 601-621
ItemPushUnshift(st, operation, p) ==
  LET value == PushValue(p.valueType, p.value)
      read == getDeep(st.ref, p.key, Undefined, st.proto)
      arr == IF read = Undefined THEN Arr(<<>>) ELSE read
      size == validateSize(value, p.key)
  IN IF ~IsArray(arr) THEN Thrown(st, "is not an array")
     ELSE IF size # "ok" THEN Thrown(st, size)
     ELSE LET grown == [arr EXCEPT !.a = IF operation = "push" THEN Append(arr.a, value)
                                         ELSE <<value>> \o arr.a]
          IN Ok(StSet(st, p.key, grown),
                [success |-> TRUE, key |-> p.key, length |-> Len(grown.a), op |-> operation])

\* the tree after the object found at keys (by the walk of getDeep) was
\* changed in place into `changed`
RECURSIVE inPlace(_, _, _, _)
inPlace(current, keys, changed, op) ==
  IF keys = <<>> THEN [cur |-> changed, proto |-> op]
  ELSE WriteBack(current, Head(keys),
                 inPlace(GetProp(current, Head(keys), op), Tail(keys), changed, op), op)

\* pop / shift both taking the element at the front
ItemPopShift_Front(st, operation, p) ==
  LET arr == getDeep(st.ref, p.key, Undefined, st.proto)
  IN IF ~IsArray(arr) THEN Thrown(st, "is not an array or does not exist")
     ELSE LET item == IF arr.a = <<>> THEN Undefined ELSE Head(arr.a)
              rest == IF arr.a = <<>> THEN <<>> ELSE Tail(arr.a)
          IN Ok(StWith(st, inPlace(st.ref, split(p.key), [arr EXCEPT !.a = rest], st.proto)),
                [success |-> TRUE, key |-> p.key, value |-> item,
                 length |-> Len(rest), op |-> operation])

\* pop / shift deleting the key once the array is empty
ItemPopShift_DeletesEmpty(st, operation, p) ==
  LET arr == getDeep(st.ref, p.key, Undefined, st.proto)
  IN IF ~IsArray(arr) THEN Thrown(st, "is not an array or does not exist")
     ELSE IF Len(arr.a) <= 1
     THEN Ok(StDelete(st, p.key),
             [success |-> TRUE, key |-> p.key,
              value |-> IF arr.a = <<>> THEN Undefined ELSE arr.a[1],
              length |-> 0, op |-> operation])
     ELSE Ok(StWith(st, inPlace(st.ref, split(p.key),
                                [arr EXCEPT !.a = IF operation = "pop"
                                                  THEN SubSeq(arr.a, 1, Len(arr.a) - 1)
                                                  ELSE Tail(arr.a)],
                                st.proto)),
             [success |-> TRUE, key |-> p.key,
              value |-> IF operation = "pop" THEN arr.a[Len(arr.a)] ELSE Head(arr.a),
              length |-> Len(arr.a) - 1, op |-> operation])

\* lines 622-629: arr.pop() / arr.shift() change the array where it is
ItemPopShift(st, operation, p) ==
  LET arr == getDeep(st.ref, p.key, Undefined, st.proto)
  IN IF ~IsArray(arr) THEN Thrown(st, "is not an array or does not exist")
     ELSE LET item == IF arr.a = <<>> THEN Undefined
                      ELSE IF operation = "pop" THEN arr.a[Len(arr.a)] ELSE Head(arr.a)
              rest == IF arr.a = <<>> THEN <<>>
                      ELSE IF operation = "pop" THEN SubSeq(arr.a, 1, Len(arr.a) - 1)
                      ELSE Tail(arr.a)
          IN Ok(StWith(st, inPlace(st.ref, split(p.key), [arr EXCEPT !.a = rest], st.proto)),
                [success |-> TRUE, key |-> p.key, value |-> item,
                 length |-> Len(rest), op |-> operation])

\* lines 630-634
ItemRemove(st, p) ==
  Ok(StDelete(st, p.key), [success |-> TRUE, key |-> p.key, op |-> "remove"])

\* lines 639-652
ItemClear(st, scope, p) ==
  IF p.clearTarget = "all"
  THEN Ok([st EXCEPT !.detached = TRUE],
          [success |-> TRUE, op |-> "clear_all", scope |-> scope])
  ELSE IF p.key # <<>>
       THEN Ok(StDelete(st, p.key), [success |-> TRUE, key |-> p.key, op |-> "clear_key"])
       ELSE Ok(st, [empty |-> TRUE])

\* the body of the try block for item i
ProcessItem(st, scope, operation, p) ==
  CASE operation = "set" -> ItemSet(st, p)
    [] operation = "get" -> ItemGet(st, p)
    [] operation = "exists" -> ItemExists(st, p)
    [] operation = "getAll" -> ItemGetAll(st, p)
    [] operation \in {"increment", "decrement"} -> ItemIncDec(st, operation, p)
    [] operation \in {"push", "unshift"} -> ItemPushUnshift(st, operation, p)
    [] operation \in {"pop", "shift"} -> ItemPopShift(st, operation, p)
    [] operation = "remove" -> ItemRemove(st, p)
    [] operation = "clear" -> ItemClear(st, scope, p)
    [] OTHER -> Ok(st, [empty |-> TRUE])

\* the end of an item whose catch block swallows the error without pushing
\* a record
AfterItem_Swallows(acc, r, continueOnFail) ==
  IF r.error = ""
  THEN [acc EXCEPT !.st = r.st, !.returnData = Append(acc.returnData, r.result)]
  ELSE IF continueOnFail THEN [acc EXCEPT !.st = r.st]
  ELSE [acc EXCEPT !.st = r.st, !.thrown = r.error]

\* the end of an item after which the loop is suspended and a clear of the
\* whole scope by another call runs before the next item
AfterItem_Interleaved(acc, r, continueOnFail) ==
  IF r.error = "" \/ continueOnFail
  THEN [acc EXCEPT !.st = [r.st EXCEPT !.ref = EmptyObject],
                   !.returnData = Append(acc.returnData, r.result)]
  ELSE [acc EXCEPT !.st = r.st, !.thrown = r.error]

\* the for loop over the items with its catch (lines 505-666);
\* acc = [st, returnData, thrown]
\* acc after item i ended with r: its record is pushed, or the catch block
\* pushes { error } when continueOnFail, or rethrows (lines 654-665)
AfterItem(acc, r, continueOnFail) ==
  IF r.error = "" \/ continueOnFail
  THEN [acc EXCEPT !.st = r.st, !.returnData = Append(acc.returnData, r.result)]
  ELSE [acc EXCEPT !.st = r.st, !.thrown = r.error]

\* the loop going on to the next item after an error was rethrown
RECURSIVE RunItems_NoAbort(_, _, _, _, _)
RunItems_NoAbort(acc, scope, operation, items, continueOnFail) ==
  IF items = <<>> THEN acc
  ELSE RunItems_NoAbort(AfterItem(acc, ProcessItem(acc.st, scope, operation, Head(items)),
                                  continueOnFail),
                        scope, operation, Tail(items), continueOnFail)

RECURSIVE RunItems(_, _, _, _, _)
RunItems(acc, scope, operation, items, continueOnFail) ==
  IF items = <<>> \/ acc.thrown # "" THEN acc
  ELSE RunItems(AfterItem(acc, ProcessItem(acc.st, scope, operation, Head(items)),
                          continueOnFail),
                scope, operation, Tail(items), continueOnFail)

\* ------------------------------------------------------------------------
\* State
\* ------------------------------------------------------------------------
VARIABLES
  executionStore,  \* SessionStore.executionStore: executionId -> [data, timestamp]
  workflowStore,   \* SessionStore.workflowStore: workflowId -> [data, timestamp]
  globalStore,     \* SessionStore.globalStore: [data, timestamp]
  objectProto,     \* the properties the program has put on Object.prototype
  now,             \* Date.now()
  calls,           \* number of calls of execute() so far
  call,            \* history: the inputs of the call observed, NoCall if none
  out,             \* history: what the observed call returned or threw
  pre              \* history: the stores as the observed call found them

vars == <<executionStore, workflowStore, globalStore, objectProto, now, calls, call, out, pre>>

NoCall == [operation |-> "none"]
NoOut == [thrown |-> "", returnData |-> <<>>]
NoPre == [at |-> -1]

\* the sweep deleting an entry as soon as it has been idle for the TTL
sweep_AtTTL(store, time) ==
  [id \in {i \in DOMAIN store : ~(time - store[i].timestamp >= TTL_MS)} |-> store[id]]

\* the store with the entries older than the TTL deleted (one forEach of
\* runGarbageCollection, lines 408-412 and 414-418)
sweep(store, time) ==
  [id \in {i \in DOMAIN store : ~(time - store[i].timestamp > TTL_MS)} |-> store[id]]

\* runGarbageCollection without its second loop
runGarbageCollection_ExecutionOnly(es, ws, time) ==
  [executionStore |-> sweep(es, time), workflowStore |-> ws]

\* runGarbageCollection (lines 405-419)
runGarbageCollection(es, ws, time) ==
  [executionStore |-> sweep(es, time), workflowStore |-> sweep(ws, time)]

\* the workflow id used as the host gives it, without the fallback
WorkflowId_Raw(raw) == raw

\* this.getWorkflow().id || 'unknown' (lines 473-477)
WorkflowId(raw) == IF raw = "" THEN "unknown" ELSE raw

\* store[id] after `if (!store[id]) store[id] = { data: {}, timestamp: Date.now() }`
\* (lines 489-491, 495-497)
entryOf(store, id, time) ==
  IF id \in DOMAIN store THEN store[id] ELSE [data |-> EmptyObject, timestamp |-> time]

\* targetStoreEntry (lines 484-499), in the stores runGarbageCollection left
targetStoreEntry(gc, gs, scope, executionId, workflowId, time) ==
  IF scope = "global" THEN gs
  ELSE IF scope = "workflow" THEN entryOf(gc.workflowStore, workflowId, time)
  ELSE entryOf(gc.executionStore, executionId, time)

\* the end of a call that leaves the timestamp of the entry it resolved as
\* it found it
Finished_NoTouch(gc, gs, scope, executionId, workflowId, time, run) ==
  [executionStore |->
     IF scope \notin {"global", "workflow"}
     THEN WithKey(gc.executionStore, executionId,
                  [data |-> IF run.st.detached THEN EmptyObject ELSE run.st.ref,
                   timestamp |-> entryOf(gc.executionStore, executionId, time).timestamp])
     ELSE gc.executionStore,
   workflowStore |->
     IF scope = "workflow"
     THEN WithKey(gc.workflowStore, workflowId,
                  [data |-> IF run.st.detached THEN EmptyObject ELSE run.st.ref,
                   timestamp |-> entryOf(gc.workflowStore, workflowId, time).timestamp])
     ELSE gc.workflowStore,
   globalStore |->
     IF scope = "global"
     THEN [data |-> IF run.st.detached THEN EmptyObject ELSE run.st.ref,
           timestamp |-> gs.timestamp]
     ELSE gs,
   objectProto |-> run.st.proto,
   out |-> [thrown |-> run.thrown,
            returnData |-> IF run.thrown = "" THEN run.returnData ELSE <<>>]]

\* the end of a call whose sweep also covers the global entry
Finished_GlobalSwept(gc, gs, scope, executionId, workflowId, time, run) ==
  [executionStore |->
     IF scope \notin {"global", "workflow"}
     THEN WithKey(gc.executionStore, executionId,
                  [data |-> IF run.st.detached THEN EmptyObject ELSE run.st.ref,
                   timestamp |-> time])
     ELSE gc.executionStore,
   workflowStore |->
     IF scope = "workflow"
     THEN WithKey(gc.workflowStore, workflowId,
                  [data |-> IF run.st.detached THEN EmptyObject ELSE run.st.ref,
                   timestamp |-> time])
     ELSE gc.workflowStore,
   globalStore |->
     IF scope = "global"
     THEN [data |-> IF run.st.detached THEN EmptyObject ELSE run.st.ref,
           timestamp |-> time]
     ELSE IF time - gs.timestamp > TTL_MS
     THEN [data |-> EmptyObject, timestamp |-> time]
     ELSE gs,
   objectProto |-> run.st.proto,
   out |-> [thrown |-> run.thrown,
            returnData |-> IF run.thrown = "" THEN run.returnData ELSE <<>>]]

\* the stores, Object.prototype and the outcome once the loop has ended with
\* run: the target entry holds the tree, stamped at line 501
Finished(gc, gs, scope, executionId, workflowId, time, run) ==
  [executionStore |->
     IF scope \notin {"global", "workflow"}
     THEN WithKey(gc.executionStore, executionId,
                  [data |-> IF run.st.detached THEN EmptyObject ELSE run.st.ref,
                   timestamp |-> time])
     ELSE gc.executionStore,
   workflowStore |->
     IF scope = "workflow"
     THEN WithKey(gc.workflowStore, workflowId,
                  [data |-> IF run.st.detached THEN EmptyObject ELSE run.st.ref,
                   timestamp |-> time])
     ELSE gc.workflowStore,
   globalStore |->
     IF scope = "global"
     THEN [data |-> IF run.st.detached THEN EmptyObject ELSE run.st.ref,
           timestamp |-> time]
     ELSE gs,
   objectProto |-> run.st.proto,
   out |-> [thrown |-> run.thrown,
            returnData |-> IF run.thrown = "" THEN run.returnData ELSE <<>>]]

\* the call from scope resolution on (lines 481-668), in the stores gc that
\* runGarbageCollection left
Resolved(gc, gs, op, time, executionId, workflowId, scope, operation, items, continueOnFail) ==
  Finished(gc, gs, scope, executionId, workflowId, time,
           RunItems([st |-> [ref |-> targetStoreEntry(gc, gs, scope, executionId,
                                                      workflowId, time).data,
                             detached |-> FALSE, proto |-> op],
                     returnData |-> <<>>, thrown |-> ""],
                    scope, operation, items, continueOnFail))

\* a call that resolves its scope in the stores as they are and sweeps them
\* once its items are processed
SweptAfter(r, time) ==
  [r EXCEPT !.executionStore = sweep(r.executionStore, time),
            !.workflowStore = sweep(r.workflowStore, time)]
execute_ResolvesFirst(es, ws, gs, op, time, executionId, rawWorkflowId, scope, operation, items, continueOnFail) ==
  SweptAfter(Resolved([executionStore |-> es, workflowStore |-> ws], gs, op, time,
                      executionId, WorkflowId(rawWorkflowId), scope, operation, items,
                      continueOnFail),
             time)

\* execute() (lines 468-669): the stores, Object.prototype and the outcome
\* of one call made at time `time`
execute(es, ws, gs, op, time, executionId, rawWorkflowId, scope, operation, items, continueOnFail) ==
  Resolved(runGarbageCollection(es, ws, time), gs, op, time, executionId,
           WorkflowId(rawWorkflowId), scope, operation, items, continueOnFail)

\* ------------------------------------------------------------------------
\* Inputs the host supplies
\* ------------------------------------------------------------------------
\* the running executions: this.getExecutionId() and this.getWorkflow().id
Executions ==
  { [executionId |-> "e1", workflowId |-> "w1"],
    [executionId |-> "e2", workflowId |-> "w1"],
    [executionId |-> "e3", workflowId |-> "w2"],
    [executionId |-> "e4", workflowId |-> ""],
    [executionId |-> "e5", workflowId |-> ""] }
Scopes == {"execution", "workflow", "global"}
\* who calls under which scope.  A workflowId of "" stands for every way
\* line 476 ends with 'unknown': an id that is missing or empty, or
\* getWorkflow() throwing; such executions are followed under workflow
\* scope, where the id is used.
Callers ==
  {c \in Executions \X Scopes : c[1].workflowId = "" => c[2] = "workflow"}

KeyA == <<"a">>
KeyAB == <<"a", DOT, "b">>
KeyProtoA == <<"__proto__", DOT, "a">>
KeyProto == PROTO
Keys == {KeyA, KeyAB, KeyProtoA, KeyProto}
PlainKeys == {KeyA, KeyAB}
\* a path that continues below key a with an array index
KeyA0 == <<"a", DOT, "0">>

\* a string that serializes to one character more than the ceiling allows,
\* one that serializes to exactly the ceiling, and one of half the ceiling
Oversized == Str("oversized", MAX_VALUE_SIZE_BYTES - 1)
AtCeiling == Str("at ceiling", MAX_VALUE_SIZE_BYTES - 2)
Large == Str("large", MAX_VALUE_SIZE_BYTES \div 2)

TextArray == Str("[1]", 3)
TextObject == Str("{\"b\":2}", 7)
\* the text of an empty sequence
TextEmptyArray == Str("[]", 2)
\* a text that is not JSON
TextMalformed == Str("[1", 2)

\* one entry of assignments.values
Assignment(key, type, value) == [key |-> key, type |-> type, value |-> value]
Assignments ==
  { Assignment(KeyA, "number", Num(1)),
    Assignment(KeyA, "array", TextArray),
    Assignment(KeyA, "object", TextObject),
    Assignment(KeyAB, "number", Num(2)),
    Assignment(KeyProtoA, "number", Num(1)),
    Assignment(KeyProto, "number", Num(1)) }
SetModes == {"auto", "nx", "xx"}
\* two assignments of one item, the second to a path that the first one
\* creates: as an intermediate mapping, or inside the value it writes
PairedAssignments ==
  { <<Assignment(KeyAB, "number", Num(2)), Assignment(KeyA, "number", Num(1))>>,
    <<Assignment(KeyA, "object", TextObject), Assignment(KeyAB, "number", Num(1))>> }

SetItem(values, setMode) == [assignments |-> values, setMode |-> setMode]
\* batches of a set: one item, or two items for the same key, or one item
\* with a value at or above the ceiling, alone or after another assignment
SetBatches ==
  {<<SetItem(<<a>>, m)>> : a \in Assignments, m \in SetModes}
    \cup {<<SetItem(<<Assignment(KeyA, "number", Num(1))>>, m),
            SetItem(<<Assignment(KeyA, "number", Num(2))>>, m)>> : m \in SetModes}
    \cup {<<SetItem(<<Assignment(KeyAB, "string", v)>>, "auto")>> : v \in {Oversized, AtCeiling}}
    \cup {<<SetItem(<<Assignment(KeyA, "number", Num(1)),
                      Assignment(KeyAB, "string", Oversized)>>, "auto")>>}
    \cup {<<SetItem(<<Assignment(KeyA, "array", v)>>, "auto")>> :
            v \in {TextMalformed, TextEmptyArray}}
    \cup {<<SetItem(values, m)>> : values \in PairedAssignments, m \in SetModes}

KeyItem(key) == [key |-> key]
AmountItem(key, amount) == [key |-> key, amount |-> amount]
CounterBatches ==
  { <<AmountItem(KeyA, 1)>>, <<AmountItem(KeyAB, 2)>>,
    <<AmountItem(KeyA, 1), AmountItem(KeyA, 2)>> }
ValueItem(key, valueType, value) == [key |-> key, valueType |-> valueType, value |-> value]
\* batches of a push / unshift: one value, or three values the second of
\* which is above the ceiling
PushBatches ==
  {<<ValueItem(KeyA, "number", Num(1))>>, <<ValueItem(KeyA, "string", Large)>>,
   <<ValueItem(KeyA, "string", Oversized)>>, <<ValueItem(KeyA, "array", TextMalformed)>>,
   <<ValueItem(KeyA, "number", Num(1)), ValueItem(KeyA, "string", Oversized),
     ValueItem(KeyA, "string", Large)>>}
\* batches of a pop / shift: once or twice on the same key
PopBatches == {<<KeyItem(KeyA)>>, <<KeyItem(KeyA), KeyItem(KeyA)>>}
ClearItem(clearTarget, key) == [clearTarget |-> clearTarget, key |-> key]
ClearBatches ==
  {<<ClearItem("all", <<>>)>>, <<ClearItem("key", KeyA)>>, <<ClearItem("key", <<>>)>>}

\* every number stored stays within the counter bound, every array within MaxLen
RECURSIVE WithinBounds(_)
WithinBounds(v) ==
  CASE v.t = "number" -> v.n >= -MaxCounter /\ v.n <= MaxCounter
    [] v.t = "array" -> Len(v.a) <= MaxLen /\ \A i \in 1..Len(v.a) : WithinBounds(v.a[i])
    [] v.t = "object" -> \A k \in DOMAIN v.o : WithinBounds(v.o[k])
    [] OTHER -> TRUE

\* ------------------------------------------------------------------------
\* Actions
\* ------------------------------------------------------------------------
Init ==
  /\ executionStore = NoProps
  /\ workflowStore = NoProps
  /\ globalStore = [data |-> EmptyObject, timestamp |-> 0]
  /\ objectProto = NoProps
  /\ now = 0
  /\ calls = 0
  /\ call = NoCall
  /\ out = NoOut
  /\ pre = NoPre

\* time passes
Tick ==
  /\ calls < MaxCalls
  /\ now + TickMs <= MaxTicks * TickMs
  /\ now' = now + TickMs
  /\ UNCHANGED <<executionStore, workflowStore, globalStore, objectProto, calls, call, out, pre>>

\* the step of a call that ends with r.  The history variables are written
\* for the call that is observed, which is the last call the model follows.
Step(r, x, scope, inv, observed) ==
  /\ \A e \in {r.executionStore[id] : id \in DOMAIN r.executionStore}
              \cup {r.workflowStore[id] : id \in DOMAIN r.workflowStore}
              \cup {r.globalStore} : WithinBounds(e.data)
  /\ executionStore' = r.executionStore
  /\ workflowStore' = r.workflowStore
  /\ globalStore' = r.globalStore
  /\ objectProto' = r.objectProto
  /\ calls' = IF observed THEN MaxCalls ELSE calls + 1
  /\ call' = IF observed
             THEN [executionId |-> x.executionId, workflowId |-> x.workflowId,
                   scope |-> scope, operation |-> inv.operation, items |-> inv.items,
                   continueOnFail |-> inv.continueOnFail]
             ELSE NoCall
  /\ out' = IF observed THEN r.out ELSE NoOut
  /\ pre' = IF observed
            THEN [at |-> now, executionStore |-> executionStore,
                  workflowStore |-> workflowStore, globalStore |-> globalStore,
                  objectProto |-> objectProto]
            ELSE NoPre
  /\ UNCHANGED now

\* one call of execute()
Call(x, scope, inv, observed) ==
  /\ calls < MaxCalls
  /\ \E r \in {execute(executionStore, workflowStore, globalStore, objectProto, now,
                        x.executionId, x.workflowId, scope, inv.operation, inv.items,
                        inv.continueOnFail)} :
       Step(r, x, scope, inv, observed)

\* the parameters of the node for one call: the operation, the per-item
\* parameters, and the node's continueOnFail setting
Invocation(operation, items, continueOnFail) ==
  [operation |-> operation, items |-> items, continueOnFail |-> continueOnFail]
Invocations ==
  {Invocation("set", items, FALSE) : items \in SetBatches}
    \cup {Invocation(o, <<KeyItem(k)>>, FALSE) : o \in {"get", "exists"},
                                                  k \in Keys \cup {KeyA0}}
    \cup {Invocation("getAll", <<KeyItem(<<>>)>>, FALSE)}
    \cup {Invocation(o, items, FALSE) : o \in {"increment", "decrement"}, items \in CounterBatches}
    \cup {Invocation(o, items, c) : o \in {"push", "unshift"}, items \in PushBatches, c \in BOOLEAN}
    \cup {Invocation(o, items, c) : o \in {"pop", "shift"}, items \in PopBatches, c \in BOOLEAN}
    \cup {Invocation("remove", <<KeyItem(k)>>, FALSE) : k \in Keys \ {KeyProto}}
    \cup {Invocation("clear", items, FALSE) : items \in ClearBatches}

\* the host runs the node: execute() is the one entry point
Execute ==
  /\ calls < MaxCalls
  /\ \E c \in Callers, inv \in Invocations, observed \in BOOLEAN :
       Call(c[1], c[2], inv, observed)

Next ==
  \/ Tick
  \/ Execute

Spec == Init /\ [][Next]_vars

\* ------------------------------------------------------------------------
\* The observed call: what it found and what it left
\* ------------------------------------------------------------------------
Observed == call # NoCall

\* the entry of store under id as a call at time `time` finds it: an entry
\* idle for longer than the TTL is swept first, and a missing one is created empty
Found(store, id, time) ==
  IF id \in DOMAIN store /\ time - store[id].timestamp <= TTL_MS
  THEN store[id].data ELSE EmptyObject

\* the tree under a scope as execution x finds it at time `time`
TreeOf(es, ws, gs, x, scope, time) ==
  IF scope = "global" THEN gs.data
  ELSE IF scope = "workflow" THEN Found(ws, WorkflowId(x.workflowId), time)
  ELSE Found(es, x.executionId, time)

\* the tree the observed call worked on, before and after
TreeBefore ==
  TreeOf(pre.executionStore, pre.workflowStore, pre.globalStore, call, call.scope, pre.at)
TreeAfter == TreeOf(executionStore, workflowStore, globalStore, call, call.scope, now)

\* what get / exists answer for key in tree
Read(tree, key, proto) == getDeep(tree, key, Undefined, proto)

\* the keys listed in the updates of result record i
Updated(i) == DOMAIN out.returnData[i].updates.o

\* the observed call ran to the end without any item failing
NoFailure ==
  /\ out.thrown = ""
  /\ \A i \in 1..Len(out.returnData) : "error" \notin DOMAIN out.returnData[i]

\* ------------------------------------------------------------------------
\* Properties
\* ------------------------------------------------------------------------
\* what get / exists answer execution x for key under scope, and what getAll
\* returns it, in the given stores at time `time`
Answers(es, ws, gs, proto, x, scope, time) ==
  [getAll |-> TreeOf(es, ws, gs, x, scope, time),
   get |-> [k \in Keys |-> Read(TreeOf(es, ws, gs, x, scope, time), k, proto)]]
AnswersBefore(x, scope) ==
  Answers(pre.executionStore, pre.workflowStore, pre.globalStore, pre.objectProto,
          x, scope, pre.at)
AnswersAfter(x, scope) ==
  Answers(executionStore, workflowStore, globalStore, objectProto, x, scope, now)

\* C1: a call made under execution scope by one execution never changes
\* what get, exists or getAll answer another execution under execution scope.
C1_ExecutionIsolation ==
  (Observed /\ call.scope = "execution") =>
    \A x \in Executions :
      x.executionId # call.executionId =>
        AnswersAfter(x, "execution") = AnswersBefore(x, "execution")

\* C2: a value written under workflow scope by one execution is what get
\* returns every execution of the same workflow, and the call changes
\* nothing that an execution of another workflow is answered under
\* workflow scope.
C2_WorkflowSharing ==
  (Observed /\ call.scope = "workflow" /\ call.operation = "set" /\ NoFailure) =>
    \A x \in Executions :
      IF x.workflowId = call.workflowId
      THEN \A k \in Updated(Len(out.returnData)) :
             AnswersAfter(x, "workflow").get[k] = out.returnData[Len(out.returnData)].updates.o[k]
      ELSE AnswersAfter(x, "workflow") = AnswersBefore(x, "workflow")

\* the observed call is a counter call on one key of a shared scope
CounterCall ==
  /\ Observed
  /\ call.operation \in {"increment", "decrement"}
  /\ call.scope \in {"workflow", "global"}
  /\ \A i \in 1..Len(call.items) : call.items[i].key = call.items[1].key
  /\ Read(TreeBefore, call.items[1].key, pre.objectProto).t \in {"number", "undefined"}
Signed(amount) == IF call.operation = "increment" THEN amount ELSE -amount
InitialCount ==
  IF Read(TreeBefore, call.items[1].key, pre.objectProto).t = "number"
  THEN Read(TreeBefore, call.items[1].key, pre.objectProto).n ELSE 0

\* C3: increments and decrements of one key of a shared scope lose no
\* update: the first item reports as oldValue the value the scope held for
\* whichever execution wrote it (0 if absent), every item reports
\* newValue = oldValue plus its signed amount, every later item starts from
\* the newValue of the item before it, and the scope ends holding the last
\* newValue.  A call is one step: execute() never awaits.
C3_NoLostUpdate ==
  CounterCall =>
    /\ out.thrown = ""
    /\ Len(out.returnData) = Len(call.items)
    /\ out.returnData[1].oldValue = InitialCount
    /\ \A i \in 1..Len(call.items) :
         out.returnData[i].newValue =
           out.returnData[i].oldValue + Signed(call.items[i].amount)
    /\ \A i \in 2..Len(call.items) :
         out.returnData[i].oldValue = out.returnData[i - 1].newValue
    /\ Read(TreeAfter, call.items[1].key, objectProto) =
         Num(out.returnData[Len(call.items)].newValue)
C3_Witness ==
  /\ CounterCall
  /\ call.scope = "workflow"
  /\ call.executionId = "e2"
  /\ Len(call.items) = 2
  /\ out.returnData[1].oldValue # 0
  /\ Read(TreeAfter, KeyA, objectProto) = Num(InitialCount - 3)

\* the observed call is a set whose items each assign the same key once in
\* if-absent mode, in a shared scope
LockCall ==
  /\ Observed
  /\ call.operation = "set"
  /\ call.scope \in {"workflow", "global"}
  /\ \A i \in 1..Len(call.items) :
       /\ call.items[i].setMode = "nx"
       /\ Len(call.items[i].assignments) = 1
       /\ call.items[i].assignments[1].key = call.items[1].assignments[1].key
LockKey == call.items[1].assignments[1].key
Writers == {i \in 1..Len(out.returnData) : Updated(i) # {}}

\* C4: among the if-absent sets of one key of a shared scope, if the key
\* was absent exactly the first one writes (its updates list the key) and
\* the scope holds its value; if the key was present none writes and the
\* value stays as it was.
C4_OnceOnlyLock ==
  LockCall =>
    /\ NoFailure
    /\ Len(out.returnData) = Len(call.items)
    /\ IF Read(TreeBefore, LockKey, pre.objectProto) = Undefined
       THEN /\ Writers = {1}
            /\ Updated(1) = {LockKey}
            /\ Read(TreeAfter, LockKey, objectProto) = FinalValue(call.items[1].assignments[1])
       ELSE /\ Writers = {}
            /\ Read(TreeAfter, LockKey, objectProto) = Read(TreeBefore, LockKey, pre.objectProto)
C4_Witness ==
  /\ LockCall
  /\ Len(call.items) = 2
  /\ Read(TreeBefore, LockKey, pre.objectProto) = Undefined
  /\ Updated(1) = {KeyA}
  /\ Updated(2) = {}
  /\ Read(TreeAfter, KeyA, objectProto) = Num(1)

\* C5: a set in if-absent mode of a key that already exists returns a
\* record with success = false.
C5_LockRefusedReportsFalse ==
  (LockCall /\ Len(call.items) = 1
     /\ Read(TreeBefore, LockKey, pre.objectProto) # Undefined) =>
    /\ NoFailure
    /\ out.returnData[1].success = FALSE

\* the observed call is a set of one item with one assignment
SingleSet ==
  /\ Observed
  /\ call.operation = "set"
  /\ Len(call.items) = 1
  /\ Len(call.items[1].assignments) = 1
SetKey == call.items[1].assignments[1].key
SetValue == FinalValue(call.items[1].assignments[1])
SetBefore == Read(TreeBefore, SetKey, pre.objectProto)
SetAfter == Read(TreeAfter, SetKey, objectProto)

\* C6: for any key and value, a set in mode always writes the value; in
\* mode if-absent it writes iff the key was undefined; in mode if-present it
\* writes iff the key was defined; a set that does not write leaves the
\* value as it was.
C6_ConditionalSet ==
  SingleSet =>
    /\ NoFailure
    /\ SetAfter =
         IF \/ call.items[1].setMode = "auto"
            \/ call.items[1].setMode = "nx" /\ SetBefore = Undefined
            \/ call.items[1].setMode = "xx" /\ SetBefore # Undefined
         THEN SetValue ELSE SetBefore

\* C7: for any path and value, a get of the path after a set of it in mode
\* always returns the value (a mapping or sequence as the record itself, a
\* scalar under the last key of the path).
C7_RoundTrip ==
  (SingleSet /\ call.items[1].setMode = "auto") =>
    /\ NoFailure
    /\ ItemGet([ref |-> TreeAfter, detached |-> FALSE, proto |-> objectProto],
               KeyItem(SetKey)).result.json
         = IF IsObject(SetValue) THEN SetValue ELSE Obj(LastKey(SetKey) :> SetValue)

\* how long an entry has been idle at time `time`
Age(entry, time) == time - entry.timestamp

Target(partition, id) ==
  \/ partition = "execution" /\ call.scope \notin {"global", "workflow"}
       /\ id = call.executionId
  \/ partition = "workflow" /\ call.scope = "workflow" /\ id = WorkflowId(call.workflowId)
Kept(partition, before, after) ==
  \A id \in DOMAIN before :
    Age(before[id], pre.at) <= TTL_MS =>
      /\ id \in DOMAIN after
      /\ IF Target(partition, id) THEN after[id].timestamp = now
         ELSE after[id] = before[id]

\* C9: a call removes no entry that has been idle for the TTL or less: such
\* an entry is still there after the call, touched if the call resolved its
\* scope to it, and with its data and timestamp as they were otherwise.
C9_ExpiryOnlyByInactivity ==
  Observed =>
    /\ Kept("execution", pre.executionStore, executionStore)
    /\ Kept("workflow", pre.workflowStore, workflowStore)
C9_Witness ==
  /\ Observed
  /\ \E id \in DOMAIN pre.executionStore :
       /\ Age(pre.executionStore[id], pre.at) = TTL_MS
       /\ ~Target("execution", id)
       /\ pre.executionStore[id].data # EmptyObject
       /\ id \in DOMAIN executionStore
       /\ executionStore[id] = pre.executionStore[id]

\* C10: the global entry always exists with a mapping as its data, and a
\* call under another scope leaves its data and timestamp as they were,
\* however long it has been idle.
C10_GlobalNeverEvicted ==
  /\ DOMAIN globalStore = {"data", "timestamp"}
  /\ globalStore.data.t = "object"
  /\ (Observed /\ call.scope # "global") => globalStore = pre.globalStore
C10_Witness ==
  /\ Observed
  /\ call.scope # "global"
  /\ Age(pre.globalStore, pre.at) > TTL_MS
  /\ pre.globalStore.data # EmptyObject
  /\ globalStore = pre.globalStore

\* the record a get of key returns when the tree holds value there
GetRecord(key, value) == IF IsObject(value) THEN value ELSE Obj(LastKey(key) :> value)

\* the value the workflow partition held at key for the workflow of the
\* observed call when the call began, whatever the age of the entry
WorkflowHeld(key) ==
  IF WorkflowId(call.workflowId) \in DOMAIN pre.workflowStore
  THEN getDeep(pre.workflowStore[WorkflowId(call.workflowId)].data, key, Undefined,
               pre.objectProto)
  ELSE Undefined

\* C11: data written under workflow scope lives as long as the process:
\* a get under workflow scope returns the value the workflow's entry holds,
\* however long ago the entry was last touched.
C11_WorkflowDataLivesOn ==
  (Observed /\ call.scope = "workflow" /\ call.operation = "get"
     /\ WorkflowHeld(call.items[1].key) # Undefined) =>
    /\ NoFailure
    /\ out.returnData[1].json =
         GetRecord(call.items[1].key, WorkflowHeld(call.items[1].key))

\* the entry the observed call resolved its scope to, in the given stores
ResolvedEntry(es, ws, gs) ==
  IF call.scope = "global" THEN gs
  ELSE IF call.scope = "workflow" THEN ws[WorkflowId(call.workflowId)]
  ELSE es[call.executionId]
NeverBack(before, after) ==
  \A id \in DOMAIN before \cap DOMAIN after : after[id].timestamp >= before[id].timestamp

\* C12: a call sets the timestamp of the entry it resolved to the current
\* time, whatever the operation and whether or not it failed, and no call
\* moves the timestamp of any entry backwards.
C12_TimestampRefreshed ==
  Observed =>
    /\ call.scope = "workflow" => WorkflowId(call.workflowId) \in DOMAIN workflowStore
    /\ call.scope \notin {"global", "workflow"} => call.executionId \in DOMAIN executionStore
    /\ ResolvedEntry(executionStore, workflowStore, globalStore).timestamp = now
    /\ NeverBack(pre.executionStore, executionStore)
    /\ NeverBack(pre.workflowStore, workflowStore)
    /\ globalStore.timestamp >= pre.globalStore.timestamp
C12_Witness ==
  /\ Observed
  /\ call.operation \in {"get", "exists", "getAll"}
  /\ call.scope = "workflow"
  /\ WorkflowId(call.workflowId) \in DOMAIN pre.workflowStore
  /\ pre.workflowStore[WorkflowId(call.workflowId)].timestamp < now
  /\ pre.workflowStore[WorkflowId(call.workflowId)].data # EmptyObject
  /\ workflowStore[WorkflowId(call.workflowId)].timestamp = now
  /\ workflowStore[WorkflowId(call.workflowId)].data =
       pre.workflowStore[WorkflowId(call.workflowId)].data

\* the error the only item of the observed call ended with, "" if none
ErrorOfCall ==
  IF out.thrown # "" THEN out.thrown
  ELSE IF "error" \in DOMAIN out.returnData[1] THEN out.returnData[1].error
  ELSE ""
\* the observed call left the tree of its scope and Object.prototype as
\* they were
TreeUnchanged == TreeAfter = TreeBefore /\ objectProto = pre.objectProto

\* the observed call is one item that writes one value
SingleWrite ==
  /\ Observed
  /\ Len(call.items) = 1
  /\ \/ call.operation = "set" /\ Len(call.items[1].assignments) = 1
     \/ call.operation \in {"push", "unshift"}
WriteKey ==
  IF call.operation = "set" THEN call.items[1].assignments[1].key ELSE call.items[1].key
WriteValue ==
  IF call.operation = "set" THEN FinalValue(call.items[1].assignments[1])
  ELSE PushValue(call.items[1].valueType, call.items[1].value)
TooLarge(value) == value.t # "SyntaxError" /\ JsonLen(value) > MAX_VALUE_SIZE_BYTES
\* the key of a push / unshift holds something that is not a sequence
HoldsNonArray ==
  /\ call.operation \in {"push", "unshift"}
  /\ Read(TreeBefore, WriteKey, pre.objectProto) # Undefined
  /\ ~IsArray(Read(TreeBefore, WriteKey, pre.objectProto))

Trees ==
  {executionStore[id].data : id \in DOMAIN executionStore}
    \cup {workflowStore[id].data : id \in DOMAIN workflowStore}
    \cup {globalStore.data}

\* C14: in every state, the value held at any key path of any scope tree
\* serializes to no more than the per-value ceiling.
C14_ValueWithinCeiling ==
  \A tree \in Trees : \A k \in PlainKeys :
    Read(tree, k, objectProto) # Undefined => ~TooLarge(Read(tree, k, objectProto))

\* the observed call is one item of an array operation
SingleArrayCall ==
  /\ Observed
  /\ call.operation \in {"push", "unshift", "pop", "shift"}
  /\ Len(call.items) = 1
ArrayBefore == Read(TreeBefore, call.items[1].key, pre.objectProto)
ArrayAfter == Read(TreeAfter, call.items[1].key, objectProto)

\* C15: a push / unshift onto a key holding a value that is not a sequence,
\* and a pop / shift of a key that is absent or holds a non-sequence, fail
\* and leave the tree as it was; a push / unshift onto an absent key
\* creates a sequence of that one value.
C15_ArrayTypeConflict ==
  SingleArrayCall =>
    /\ (call.operation \in {"push", "unshift"} /\ ArrayBefore # Undefined
          /\ ~IsArray(ArrayBefore)) =>
         (ErrorOfCall = "is not an array" /\ TreeUnchanged)
    /\ (call.operation \in {"pop", "shift"} /\ ~IsArray(ArrayBefore)) =>
         (ErrorOfCall = "is not an array or does not exist" /\ TreeUnchanged)
    /\ (call.operation \in {"push", "unshift"} /\ ArrayBefore = Undefined
          /\ ~TooLarge(WriteValue)) =>
         (ErrorOfCall = "" /\ ArrayAfter = Arr(<<WriteValue>>))
C15_Witness ==
  /\ SingleArrayCall
  /\ call.operation = "push"
  /\ ~TooLarge(WriteValue)
  /\ ArrayBefore = Num(1)
  /\ ErrorOfCall = "is not an array"
  /\ ArrayAfter = Num(1)

\* the observed call is a batch of one array operation on one key that
\* returned its records, the key holding a sequence or (for push / unshift)
\* nothing
ArrayCall ==
  /\ Observed
  /\ call.operation \in {"push", "unshift", "pop", "shift"}
  /\ out.thrown = ""
  /\ \A i \in 1..Len(call.items) : call.items[i].key = call.items[1].key
  /\ \/ IsArray(ArrayBefore)
     \/ call.operation \in {"push", "unshift"} /\ ArrayBefore = Undefined
\* the elements before and after the call
ElemsBefore == IF ArrayBefore = Undefined THEN <<>> ELSE ArrayBefore.a
ElemsAfter == ArrayAfter.a
\* the items that succeeded (a value above the ceiling is refused), and the
\* position of item i among them
Succeeded == {i \in 1..Len(call.items) : "error" \notin DOMAIN out.returnData[i]}
Rank(i) == Cardinality({j \in Succeeded : j <= i})
ValueOf(i) == PushValue(call.items[i].valueType, call.items[i].value)
Remaining(i) == IF Len(ElemsBefore) > i THEN Len(ElemsBefore) - i ELSE 0

\* C16: push appends each value at the end and unshift puts each value at
\* the front; pop returns and removes the last element, shift the first
\* (nothing when the sequence is empty); every record reports the length
\* the sequence has after its operation.  Values pushed in the order
\* v1..vn therefore come back vn..v1 by pop and v1..vn by shift.
C16_QueueStackOrder ==
  (ArrayCall /\ Succeeded # {}) =>
    /\ Len(out.returnData) = Len(call.items)
    /\ IsArray(ArrayAfter)
    /\ call.operation \in {"push", "unshift"} =>
         /\ Len(ElemsAfter) = Len(ElemsBefore) + Cardinality(Succeeded)
         /\ \A i \in Succeeded :
              /\ out.returnData[i].length = Len(ElemsBefore) + Rank(i)
              /\ ElemsAfter[IF call.operation = "push" THEN Len(ElemsBefore) + Rank(i)
                            ELSE Cardinality(Succeeded) - Rank(i) + 1] = ValueOf(i)
         /\ \A j \in 1..Len(ElemsBefore) :
              ElemsAfter[IF call.operation = "push" THEN j
                         ELSE Cardinality(Succeeded) + j] = ElemsBefore[j]
    /\ call.operation \in {"pop", "shift"} =>
         /\ Succeeded = 1..Len(call.items)
         /\ \A i \in 1..Len(call.items) :
              /\ out.returnData[i].length = Remaining(i)
              /\ out.returnData[i].value =
                   IF i > Len(ElemsBefore) THEN Undefined
                   ELSE IF call.operation = "pop" THEN ElemsBefore[Len(ElemsBefore) - i + 1]
                   ELSE ElemsBefore[i]
         /\ ElemsAfter =
              IF call.operation = "pop"
              THEN SubSeq(ElemsBefore, 1, Remaining(Len(call.items)))
              ELSE SubSeq(ElemsBefore, Len(ElemsBefore) - Remaining(Len(call.items)) + 1,
                          Len(ElemsBefore))
C16_Witness ==
  /\ ArrayCall
  /\ call.operation = "pop"
  /\ Len(call.items) = 2
  /\ ElemsBefore = <<Num(1), Large>>
  /\ out.returnData[1].value = Large
  /\ out.returnData[1].length = 1
  /\ out.returnData[2].value = Num(1)
  /\ out.returnData[2].length = 0
  /\ ElemsAfter = <<>>

\* the observed call is a batch of increments or decrements of one key,
\* under any scope and whatever the key holds
ArithmeticCall ==
  /\ Observed
  /\ call.operation \in {"increment", "decrement"}
  /\ \A i \in 1..Len(call.items) : call.items[i].key = call.items[1].key
CountBefore == Read(TreeBefore, call.items[1].key, pre.objectProto)

\* C17: an increment / decrement by a of a key that is absent or holds
\* something that is not a number reports oldValue 0 and stores 0 + a
\* (0 - a); of a key holding the number n it reports oldValue n and stores
\* n + a (n - a); in a series each oldValue is the newValue before it.
C17_CounterArithmetic ==
  ArithmeticCall =>
    /\ NoFailure
    /\ Len(out.returnData) = Len(call.items)
    /\ out.returnData[1].oldValue = IF CountBefore.t = "number" THEN CountBefore.n ELSE 0
    /\ \A i \in 1..Len(call.items) :
         /\ out.returnData[i].key = call.items[i].key
         /\ out.returnData[i].op = call.operation
         /\ out.returnData[i].newValue =
              IF call.operation = "increment"
              THEN out.returnData[i].oldValue + call.items[i].amount
              ELSE out.returnData[i].oldValue - call.items[i].amount
         /\ i > 1 => out.returnData[i].oldValue = out.returnData[i - 1].newValue
    /\ Read(TreeAfter, call.items[1].key, objectProto) =
         Num(out.returnData[Len(call.items)].newValue)
C17_Witness ==
  /\ ArithmeticCall
  /\ call.operation = "decrement"
  /\ call.scope = "execution"
  /\ IsArray(CountBefore)
  /\ Len(call.items) = 2
  /\ out.returnData[1].oldValue = 0
  /\ out.returnData[2].oldValue = -1
  /\ Read(TreeAfter, KeyA, objectProto) = Num(-3)

C18_SingleValueOperations ==
  (Observed /\ Len(call.items) = 1 /\ ErrorOfCall # ""
     /\ (call.operation = "set" => Len(call.items[1].assignments) = 1)) => TreeUnchanged

\* the observed call is a batch of one array operation on one key
ArrayBatch ==
  /\ Observed
  /\ call.operation \in {"push", "unshift", "pop", "shift"}
  /\ \A i \in 1..Len(call.items) : call.items[i].key = call.items[1].key
\* item i of an array batch cannot succeed: the key holds a non-sequence
\* (or nothing, for pop / shift), or the value is above the ceiling
MustFail(i) ==
  IF call.operation \in {"pop", "shift"} THEN ~IsArray(ArrayBefore)
  ELSE \/ ArrayBefore # Undefined /\ ~IsArray(ArrayBefore)
       \/ TooLarge(ValueOf(i))
ElemsNow == IF IsArray(ArrayAfter) THEN ArrayAfter.a ELSE <<>>
\* the values of the items before item n, in input order and reversed
RECURSIVE ValuesBefore(_)
ValuesBefore(n) == IF n <= 1 THEN <<>> ELSE Append(ValuesBefore(n - 1), ValueOf(n - 1))
RECURSIVE Reversed(_)
Reversed(seq) == IF seq = <<>> THEN <<>> ELSE Append(Reversed(Tail(seq)), Head(seq))

\* C19: with continueOnFail the call returns one record per item, in input
\* order: { error } for an item that fails, the item's own record
\* otherwise; an item after a failed one is processed as any other.
C19_LenientMode ==
  (Observed /\ call.continueOnFail) =>
    /\ out.thrown = ""
    /\ Len(out.returnData) = Len(call.items)
    /\ ArrayBatch =>
         \A i \in 1..Len(call.items) :
           IF MustFail(i)
           THEN DOMAIN out.returnData[i] = {"error"}
           ELSE /\ "error" \notin DOMAIN out.returnData[i]
                /\ out.returnData[i].key = call.items[i].key
                /\ out.returnData[i].op = call.operation
                /\ call.operation \in {"push", "unshift"} =>
                     out.returnData[i].length = Len(ElemsBefore) + Rank(i)
C19_Witness ==
  /\ Observed
  /\ call.continueOnFail
  /\ call.operation = "push"
  /\ Len(call.items) = 3
  /\ Len(out.returnData) = 3
  /\ "error" \notin DOMAIN out.returnData[1]
  /\ out.returnData[2] = [error |-> "exceeds size limit"]
  /\ "error" \notin DOMAIN out.returnData[3]
  /\ out.returnData[3].length = 2
  /\ ElemsNow = <<Num(1), Large>>

\* the first item of an array batch that cannot succeed, 0 if none
FirstFailing ==
  IF \E i \in 1..Len(call.items) : MustFail(i)
  THEN CHOOSE i \in 1..Len(call.items) :
         MustFail(i) /\ \A j \in 1..(i - 1) : ~MustFail(j)
  ELSE 0

\* C20: without continueOnFail the first failing item makes the call
\* throw: no record is returned, the items before it stay applied and no
\* item after it is processed.
C20_StrictMode ==
  (Observed /\ ~call.continueOnFail) =>
    /\ out.thrown # "" => out.returnData = <<>>
    /\ out.thrown = "" => /\ Len(out.returnData) = Len(call.items)
                          /\ NoFailure
    /\ ArrayBatch =>
         /\ out.thrown # "" <=> FirstFailing # 0
         /\ (FirstFailing # 0 /\ MustFail(1)) => TreeUnchanged
         /\ (FirstFailing > 1 /\ call.operation = "push") =>
              ElemsNow = ElemsBefore \o ValuesBefore(FirstFailing)
         /\ (FirstFailing > 1 /\ call.operation = "unshift") =>
              ElemsNow = Reversed(ValuesBefore(FirstFailing)) \o ElemsBefore
C20_Witness ==
  /\ Observed
  /\ ~call.continueOnFail
  /\ call.operation = "push"
  /\ Len(call.items) = 3
  /\ ArrayBefore = Undefined
  /\ out.thrown = "exceeds size limit"
  /\ out.returnData = <<>>
  /\ ElemsNow = <<Num(1)>>

\* the observed call writes one array- or object-typed value whose text
\* cannot be decoded
RawText ==
  IF call.operation = "set" THEN call.items[1].assignments[1].value ELSE call.items[1].value
MalformedWrite ==
  /\ SingleWrite
  /\ (IF call.operation = "set" THEN call.items[1].assignments[1].type
       ELSE call.items[1].valueType) \in {"array", "object"}
  /\ RawText.t = "string"
  /\ JSONparse(RawText).t = "SyntaxError"
  /\ ~HoldsNonArray
StoredRaw ==
  CASE call.operation = "set" -> Read(TreeAfter, WriteKey, objectProto) = RawText
    [] call.operation = "push" ->
         IsArray(ArrayAfter) /\ ArrayAfter.a = ElemsBefore \o <<RawText>>
    [] OTHER -> IsArray(ArrayAfter) /\ ArrayAfter.a = <<RawText>> \o ElemsBefore

\* C21: a set, push or unshift of an array- or object-typed value whose
\* text is not JSON succeeds and stores the raw string.
C21_MalformedJsonTolerated ==
  MalformedWrite => (ErrorOfCall = "" /\ StoredRaw)

\* the same for push and unshift alone
C21_PushTolerates ==
  (MalformedWrite /\ call.operation # "set") => (ErrorOfCall = "" /\ StoredRaw)

\* the observed call is one remove
RemoveCall == Observed /\ call.operation = "remove" /\ Len(call.items) = 1
RemoveKey == call.items[1].key
\* the paths made of the first n segments of path, for every n below the
\* number of its segments
RECURSIVE Joined(_, _)
Joined(keys, n) == IF n = 1 THEN keys[1] ELSE Joined(keys, n - 1) \o <<DOT>> \o keys[n]
ProperPrefixes(path) == {Joined(split(path), n) : n \in 1..(Len(split(path)) - 1)}
\* the parent of the last segment of path is missing or is no object
NoParent(tree, path, proto) ==
  \E p \in ProperPrefixes(path) : ~IsObject(Read(tree, p, proto))

\* C22: a remove never fails and creates no intermediate mapping; where a
\* segment before the last is missing or not a mapping it leaves the tree
\* as it was; after it the path is undefined; a second remove of the path
\* changes nothing more.
C22_RemoveIdempotent ==
  RemoveCall =>
    /\ NoFailure
    /\ out.returnData[1] = [success |-> TRUE, key |-> RemoveKey, op |-> "remove"]
    /\ \A p \in ProperPrefixes(RemoveKey) :
         Read(TreeBefore, p, pre.objectProto) = Undefined =>
           Read(TreeAfter, p, objectProto) = Undefined
    /\ NoParent(TreeBefore, RemoveKey, pre.objectProto) => TreeUnchanged
    /\ Read(TreeAfter, RemoveKey, objectProto) = Undefined
    /\ deleteDeep(TreeAfter, RemoveKey, objectProto) = [cur |-> TreeAfter, proto |-> objectProto]

\* the same where Object.prototype holds nothing of the program's
C22_RemoveOwn ==
  (RemoveCall /\ pre.objectProto = NoProps) => C22_RemoveIdempotent

\* the observed call is one clear of the entire scope
ClearAllCall ==
  /\ Observed
  /\ call.operation = "clear"
  /\ Len(call.items) = 1
  /\ call.items[1].clearTarget = "all"
\* the entries the observed call did not resolve its scope to are as they
\* were, those the sweep deleted aside
OthersUntouched ==
  /\ \A id \in DOMAIN executionStore :
       ~Target("execution", id) =>
         (id \in DOMAIN pre.executionStore /\ executionStore[id] = pre.executionStore[id])
  /\ \A id \in DOMAIN workflowStore :
       ~Target("workflow", id) =>
         (id \in DOMAIN pre.workflowStore /\ workflowStore[id] = pre.workflowStore[id])
  /\ call.scope # "global" => globalStore = pre.globalStore

\* C23: after a clear of the entire scope the tree of the entry is the
\* empty mapping: getAll is {} and no path exists for a later call on the
\* same scope key; every other entry is as it was.
C23_ClearAll ==
  ClearAllCall =>
    /\ NoFailure
    /\ TreeAfter = EmptyObject
    /\ \A k \in Keys : Read(TreeAfter, k, objectProto) = Undefined
    /\ OthersUntouched

\* the same for the paths without a __proto__ segment, where
\* Object.prototype holds nothing of the program's
C23_ClearAllOwn ==
  (ClearAllCall /\ objectProto = NoProps) =>
    /\ NoFailure
    /\ TreeAfter = EmptyObject
    /\ \A k \in PlainKeys : Read(TreeAfter, k, objectProto) = Undefined
    /\ OthersUntouched

\* the observed call is one clear of a single key
ClearKeyCall ==
  /\ Observed
  /\ call.operation = "clear"
  /\ Len(call.items) = 1
  /\ call.items[1].clearTarget = "key"
\* what a remove of the same key does to the tree the call found
AsRemove ==
  ItemRemove([ref |-> TreeBefore, detached |-> FALSE, proto |-> pre.objectProto],
             KeyItem(call.items[1].key))

\* C24: a clear of a single key, whatever the key (the empty string
\* included), leaves the tree as a remove of that key does, and reports
\* success as remove does.
C24_ClearKeyIsRemove ==
  ClearKeyCall =>
    /\ NoFailure
    /\ TreeAfter = AsRemove.st.ref
    /\ objectProto = AsRemove.st.proto
    /\ "success" \in DOMAIN out.returnData[1]
    /\ out.returnData[1].success = AsRemove.result.success
    /\ out.returnData[1].key = AsRemove.result.key

\* the same for the keys that are not the empty string
C24_ClearNamedKeyIsRemove ==
  (ClearKeyCall /\ call.items[1].key # <<>>) => C24_ClearKeyIsRemove

\* the observed call is one get or exists
ReadCall == Observed /\ call.operation \in {"get", "exists"} /\ Len(call.items) = 1
ReadKey == call.items[1].key
\* the call answered for its key as for a path that holds value
Answered(value) ==
  /\ NoFailure
  /\ IF call.operation = "get"
     THEN out.returnData[1].json = GetRecord(ReadKey, value)
     ELSE out.returnData[1] = [key |-> ReadKey, exists |-> value # Undefined]
\* the kinds of node a walk can reach below which segments remain
BlockedBy(kinds) ==
  \E p \in ProperPrefixes(ReadKey) : Read(TreeBefore, p, pre.objectProto).t \in kinds

\* C25 as stated: a get / exists of a path that continues below a scalar,
\* null or a sequence answers undefined.
C25_GetStopsAtNonMapping ==
  (ReadCall /\ BlockedBy({"number", "string", "boolean", "null", "array"})) =>
    Answered(Undefined)

\* C25 amended: a get / exists of a path that continues below a scalar or
\* null answers undefined; a sequence is walked as a mapping is: below it an
\* index segment resolves to the element at that index, so "a.0" answers
\* the first element of the sequence at "a".
C25_GetStopsAtScalar ==
  ReadCall =>
    /\ BlockedBy({"number", "string", "boolean", "null"}) => Answered(Undefined)
    /\ (ReadKey = KeyA0 /\ IsArray(Read(TreeBefore, KeyA, pre.objectProto))) =>
         Answered(IF Read(TreeBefore, KeyA, pre.objectProto).a = <<>> THEN Undefined
                  ELSE Read(TreeBefore, KeyA, pre.objectProto).a[1])
C25_Witness ==
  /\ ReadCall
  /\ call.operation = "get"
  /\ ReadKey = KeyA0
  /\ Read(TreeBefore, KeyA, pre.objectProto) = Arr(<<Num(1), Large>>)
  /\ out.returnData[1].json = Obj(<<"0">> :> Num(1))

\* the observed call is one unconditional set of one value the size guard
\* and the JSON decoding accept
PlainSet ==
  /\ SingleSet
  /\ call.items[1].setMode = "auto"
  /\ SetValue.t # "SyntaxError"
  /\ ~TooLarge(SetValue)
\* every proper prefix of path holds a mapping in tree
MappingsAbove(tree, path, proto) ==
  \A p \in ProperPrefixes(path) : Read(tree, p, proto).t = "object"
\* some proper prefix of path holds a sequence in tree
SequenceAbove(tree, path, proto) ==
  \E p \in ProperPrefixes(path) : IsArray(Read(tree, p, proto))

\* C26: an unconditional set of a path never fails; after it every proper
\* prefix of the path holds a mapping (a missing, scalar, null or sequence
\* value in the way is replaced) and the path holds the value.
C26_SetDeepDestructive ==
  PlainSet =>
    /\ NoFailure
    /\ MappingsAbove(TreeAfter, SetKey, objectProto)
    /\ SetAfter = SetValue

\* C26 where no sequence is in the way and no segment is __proto__: the
\* path is made of mappings and holds the value.
C26_SetDeepOverScalars ==
  (PlainSet /\ SetKey \in PlainKeys
     /\ ~SequenceAbove(TreeBefore, SetKey, pre.objectProto)) =>
    /\ NoFailure
    /\ MappingsAbove(TreeAfter, SetKey, objectProto)
    /\ SetAfter = SetValue
\* a set below a sequence leaves the sequence in place
C26_SequenceKept ==
  (PlainSet /\ SetKey = KeyAB /\ IsArray(Read(TreeBefore, KeyA, pre.objectProto))) =>
    IsArray(Read(TreeAfter, KeyA, objectProto))

\* the observed call is one set item of two assignments that the size guard
\* and the JSON decoding accept
PairedSet ==
  /\ Observed
  /\ call.operation = "set"
  /\ Len(call.items) = 1
  /\ call.items[1].assignments \in PairedAssignments
First == call.items[1].assignments[1]
Second == call.items[1].assignments[2]
\* whether an assignment is applied to a path that holds value
Fires(setMode, value) ==
  \/ setMode = "auto"
  \/ setMode = "nx" /\ value = Undefined
  \/ setMode = "xx" /\ value # Undefined
\* the tree after assignment a, processed in mode setMode from state st
Applied(st, a, setMode) ==
  IF Fires(setMode, Read(st.ref, a.key, st.proto))
  THEN StSet(st, a.key, FinalValue(a))
  ELSE st
\* the keys written by the two assignments, the second judged in the tree
\* the first one leaves
Written(st, setMode) ==
  (IF Fires(setMode, Read(st.ref, First.key, st.proto)) THEN {First.key} ELSE {})
    \cup
  (IF Fires(setMode, Read(Applied(st, First, setMode).ref, Second.key,
                          Applied(st, First, setMode).proto))
   THEN {Second.key} ELSE {})
StartOfCall == [ref |-> TreeBefore, detached |-> FALSE, proto |-> pre.objectProto]

\* C27: the assignments of one set are applied in list order and the
\* existence check of the second reads the tree the first one leaves: in
\* mode if-absent a second assignment to a path the first one created is
\* skipped, in mode if-present it is applied; updates lists exactly the
\* keys written.
C27_AssignmentsInOrder ==
  PairedSet =>
    /\ NoFailure
    /\ TreeAfter = Applied(Applied(StartOfCall, First, call.items[1].setMode),
                           Second, call.items[1].setMode).ref
    /\ Updated(1) = Written(StartOfCall, call.items[1].setMode)
    /\ (call.items[1].setMode = "nx" /\ First.key \in Updated(1)) =>
         Second.key \notin Updated(1)
    /\ (call.items[1].setMode = "xx" /\ First.key \in Updated(1)) =>
         /\ Second.key \in Updated(1)
         /\ Read(TreeAfter, Second.key, objectProto) = FinalValue(Second)
C27_Witness ==
  /\ PairedSet
  /\ call.items[1].setMode = "nx"
  /\ First.key = KeyAB
  /\ Read(TreeBefore, KeyA, pre.objectProto) = Undefined
  /\ Updated(1) = {KeyAB}
  /\ Read(TreeAfter, KeyA, objectProto) = Obj(<<"b">> :> Num(2))

\* the partition the observed call resolved its scope in, before and after,
\* and the id of its entry there
PartitionBefore ==
  IF call.scope = "workflow" THEN pre.workflowStore ELSE pre.executionStore
PartitionAfter == IF call.scope = "workflow" THEN workflowStore ELSE executionStore
TargetId ==
  IF call.scope = "workflow" THEN WorkflowId(call.workflowId) ELSE call.executionId
\* the entry the observed call targets held data and had been idle for
\* longer than the TTL when the call started
StaleTarget ==
  /\ Observed
  /\ call.scope # "global"
  /\ TargetId \in DOMAIN PartitionBefore
  /\ Age(PartitionBefore[TargetId], pre.at) > TTL_MS
  /\ PartitionBefore[TargetId].data # EmptyObject
\* the items of the observed call processed on an empty tree
OnEmptyTree ==
  RunItems([st |-> [ref |-> EmptyObject, detached |-> FALSE, proto |-> pre.objectProto],
            returnData |-> <<>>, thrown |-> ""],
           call.scope, call.operation, call.items, call.continueOnFail)

BatchCall ==
  /\ Observed
  /\ Len(call.items) >= 2
  /\ out.thrown = ""
\* the tree and Object.prototype as the first i items of the observed call
\* leave them, nothing else writing in between
RECURSIVE ItemState(_)
ItemState(i) ==
  IF i = 0 THEN StartOfCall
  ELSE ProcessItem(ItemState(i - 1), call.scope, call.operation, call.items[i]).st

RefusedSet ==
  /\ SingleSet
  /\ SetValue.t # "SyntaxError"
  /\ ~TooLarge(SetValue)
  /\ \/ call.items[1].setMode = "nx" /\ SetBefore # Undefined
     \/ call.items[1].setMode = "xx" /\ SetBefore = Undefined

FrameCall ==
  /\ Observed
  /\ Len(call.items) = 1
  /\ \/ PlainSet
     \/ call.operation \in {"increment", "decrement"}
  /\ NoFailure
FrameKey == IF call.operation = "set" THEN SetKey ELSE call.items[1].key
\* the segments of q are the first segments of p
IsPrefix(q, p) ==
  /\ Len(split(q)) <= Len(split(p))
  /\ \A i \in 1..Len(split(q)) : split(q)[i] = split(p)[i]
Unrelated(q, p) == ~IsPrefix(q, p) /\ ~IsPrefix(p, q)
\* the paths the model reads
Paths == Keys \cup {KeyA0}
\* the call left every path unrelated to p as it found it
FrameKept(p) ==
  \A q \in Paths :
    Unrelated(q, p) =>
      Read(TreeAfter, q, objectProto) = Read(TreeBefore, q, pre.objectProto)

\* C31: an unconditional set, an increment or a decrement of path p leaves
\* the value resolved at every path that is neither a prefix nor an
\* extension of p as it was.
C31_WriteFrame ==
  FrameCall => FrameKept(FrameKey)

\* C31 for a path none of whose segments is __proto__: the unrelated paths
\* keep their values, a sequence above the path keeping its elements.
C31_PlainWriteFrame ==
  (FrameCall /\ FrameKey \in PlainKeys) => FrameKept(FrameKey)

\* the observed call ran under workflow scope for a workflow without id
UnidentifiedCall ==
  /\ Observed
  /\ call.scope = "workflow"
  /\ call.workflowId = ""
\* the tree of the entry keyed "unknown" as the observed call found it
UnknownBefore == Found(pre.workflowStore, "unknown", pre.at)
\* the items of the observed call processed on that tree
OnUnknownTree ==
  RunItems([st |-> [ref |-> UnknownBefore, detached |-> FALSE, proto |-> pre.objectProto],
            returnData |-> <<>>, thrown |-> ""],
           call.scope, call.operation, call.items, call.continueOnFail)
\* the observed call left the entries of the other workflows as they were,
\* apart from the sweep
OtherWorkflowsKept(id) ==
  \A w \in DOMAIN pre.workflowStore \ {id} :
    w \in DOMAIN workflowStore => workflowStore[w] = pre.workflowStore[w]

\* C32: a call under workflow scope for a workflow without id works on the
\* one entry keyed "unknown", whichever execution makes it: it answers from
\* the tree that entry held, leaves its tree there, creates no entry under
\* the id as given, and leaves the entries of the identified workflows
\* alone; a call for an identified workflow leaves the entry "unknown" alone.
C32_UnknownWorkflowShared ==
  /\ UnidentifiedCall =>
       /\ "unknown" \in DOMAIN workflowStore
       /\ "" \notin DOMAIN workflowStore
       /\ workflowStore["unknown"].timestamp = now
       /\ out.thrown = OnUnknownTree.thrown
       /\ out.thrown = "" => out.returnData = OnUnknownTree.returnData
       /\ workflowStore["unknown"].data =
            (IF OnUnknownTree.st.detached THEN EmptyObject ELSE OnUnknownTree.st.ref)
       /\ OtherWorkflowsKept("unknown")
  /\ (Observed /\ call.scope = "workflow" /\ call.workflowId \notin {"", "unknown"}) =>
       OtherWorkflowsKept(call.workflowId)
C32_Witness ==
  /\ UnidentifiedCall
  /\ call.executionId = "e5"
  /\ call.operation = "getAll"
  /\ DOMAIN pre.workflowStore = {"unknown"}
  /\ Read(UnknownBefore, KeyA, ObjectPrototype) = Num(1)
  /\ out.returnData[1].json = UnknownBefore
  /\ DOMAIN workflowStore = {"unknown"}

\* the observed call is a batch of pops or shifts of one key that holds a
\* sequence
PopCall ==
  /\ Observed
  /\ call.operation \in {"pop", "shift"}
  /\ \A i \in 1..Len(call.items) : call.items[i].key = call.items[1].key
  /\ IsArray(ArrayBefore)
\* value is a sequence without elements
IsEmptyArray(value) == IsArray(value) /\ value.a = <<>>

\* C33: pop and shift never delete the key.  Once they have removed the last
\* element the path holds an empty sequence; a pop / shift of an empty
\* sequence succeeds with an undefined value and length 0; exists answers
\* true for a path holding an empty sequence and an if-absent set of it
\* does not fire.
C33_PopKeepsKey ==
  /\ PopCall =>
       /\ NoFailure
       /\ IsArray(ArrayAfter)
       /\ Len(call.items) >= Len(ArrayBefore.a) => IsEmptyArray(ArrayAfter)
       /\ \A i \in 1..Len(call.items) :
            i > Len(ArrayBefore.a) =>
              /\ out.returnData[i].success = TRUE
              /\ out.returnData[i].value = Undefined
              /\ out.returnData[i].length = 0
  /\ (Observed /\ call.operation = "exists"
        /\ IsEmptyArray(Read(TreeBefore, call.items[1].key, pre.objectProto))) =>
       out.returnData[1].exists = TRUE
  /\ (SingleSet /\ call.items[1].setMode = "nx" /\ IsEmptyArray(SetBefore)) =>
       /\ TreeUnchanged
       /\ Updated(1) = {}
C33_Witness ==
  /\ PopCall
  /\ Len(call.items) = 2
  /\ ArrayBefore = Arr(<<Num(1)>>)
  /\ out.returnData[1].value = Num(1)
  /\ out.returnData[2].value = Undefined
  /\ out.returnData[2].length = 0
  /\ ArrayAfter = Arr(<<>>)

====
